---------------------------- MODULE Spec2Model ----------------------------
(***************************************************************************)
(* Model of the paper-trading simulator, src/paper_trading_bot.py          *)
(* (class PaperTradingBot): the account (balance, positions), the order    *)
(* log (orders) and the id counter, with one action per method; and of the *)
(* exchange wrappers src/bot1.py and src/bot2.py (class BasicBot): the     *)
(* orders they submit to the exchange, and the environment choice of       *)
(* bot1's main().                                                          *)
(*                                                                         *)
(* Numbers.  The Python code computes in binary floats (53 significant     *)
(* bits, round to nearest, ties to even).  The model's amounts are         *)
(* integers and every arithmetic result passes through Fl, which rounds to *)
(* FloatBits significant bits the same way.  Binary rounding does not      *)
(* depend on the scale, so an integer amount stands for that many units of *)
(* some power of two.  Amounts below 2^FloatBits are exact, as integers    *)
(* below 2^53 are in the code; specifications that study rounding start    *)
(* from amounts above 2^FloatBits.                                         *)
(*                                                                         *)
(* Strings.  str.upper() is modelled by the table Upper over the spellings *)
(* the model passes in.                                                    *)
(*                                                                         *)
(* The order's 'timestamp' field (datetime.now()) is read by nothing in    *)
(* the program and is left out of the order records.                       *)
(***************************************************************************)
EXTENDS Integers, Sequences, FiniteSets, TLC

VARIABLES
    balance,           \* self.balance
    positions,         \* self.positions: dict, raw symbol string -> quantity
    orders,            \* self.orders: list of order dicts
    order_id_counter,  \* self.order_id_counter
    call,              \* the most recent method call: its arguments, and
                       \* what its price request yielded
    before,            \* history: balance and positions when that call began
    prev,              \* history: balance and positions when the call
                       \* before that began
    ret,               \* what the most recent method call returned
    threads,           \* per thread of a concurrent host: the position in
                       \* place_market_order and its local variables
    snapshot,          \* the dict a caller got from get_account_balance and
                       \* still holds
    exchange,          \* bot1.py, bot2.py: the orders the exchange accepted
                       \* through client.futures_create_order, in order
    cli                \* bot1.py main(): its position and local variables

vars == <<balance, positions, orders, order_id_counter, call, before, prev,
          ret, threads, snapshot, exchange, cli>>

----------------------------------------------------------------------------
(* Bounds and input domains *)

\* Number of orders one behaviour places.
MaxOrders == 2

\* Symbols the caller passes: one symbol of the mock table in two spellings,
\* and one symbol the mock table does not know.
Symbols == {"BTCUSDT", "btcusdt", "XYZUSDT"}

\* Sides the caller passes: BUY, SELL in lower case, and a string that is
\* neither.
Sides == {"BUY", "sell", "HOLD"}

\* Quantities the caller passes (the code validates none of them).
Quantities == {-1, 1}

\* Limit prices the caller passes: non-positive, equal to the live price,
\* above the live price.
LimitPrices == {0, 100, 110}

\* Number of orders one behaviour gets accepted by the exchange through
\* the single-order methods of the wrappers.
MaxSubmitted == 1

\* Significant bits of the model's floats.
FloatBits == 20

\* Threads of a concurrent host.
Threads == {1, 2}

----------------------------------------------------------------------------
(* Float arithmetic *)

Abs(x) == IF x < 0 THEN -x ELSE x

\* The least magnitude at which integers stop being exact.
FloatLimit == 2^FloatBits

\* The spacing of the floats around a magnitude a >= 2^FloatBits.
RECURSIVE Ulp(_, _)
Ulp(a, step) == IF a < FloatLimit * step THEN step ELSE Ulp(a, 2 * step)

\* Round x to the nearest float, ties to the even significand.
Fl(x) ==
    IF Abs(x) < FloatLimit
    THEN x
    ELSE LET a == Abs(x)
             step == Ulp(a, 2)
             m == a \div step
             r == a % step
             up == \/ 2 * r > step
                   \/ (2 * r = step /\ m % 2 = 1)
             v == (IF up THEN m + 1 ELSE m) * step
         IN IF x < 0 THEN -v ELSE v

----------------------------------------------------------------------------
(* Pure helpers *)

\* str.upper() on the strings the model passes in.
Upper(s) ==
    CASE s = "btcusdt" -> "BTCUSDT"
      [] s = "ethusdt" -> "ETHUSDT"
      [] s = "sell"    -> "SELL"
      [] OTHER         -> s

\* What the HTTP request of get_current_price yields: an exception
\* (ok = FALSE: network error, unknown symbol, malformed body) or a quote.
\* The exchange quotes BTCUSDT and does not list XYZUSDT.
Responses(symbol) ==
    IF Upper(symbol) = "BTCUSDT"
    THEN {[ok |-> FALSE, price |-> 0], [ok |-> TRUE, price |-> 100]}
    ELSE {[ok |-> FALSE, price |-> 0]}

\* mock_prices of get_current_price, and the default of mock_prices.get.
mock_prices ==
    [s \in {"BTCUSDT", "ETHUSDT", "BNBUSDT"} |->
        CASE s = "BTCUSDT" -> 43000
          [] s = "ETHUSDT" -> 2500
          [] s = "BNBUSDT" -> 300]

DefaultPrice == 1000

\* Variant: the mock table is looked up with the symbol as passed.
get_current_price_NoUpper(symbol, response) ==
    IF response.ok
    THEN response.price
    ELSE IF symbol \in DOMAIN mock_prices
         THEN mock_prices[symbol]
         ELSE DefaultPrice

\* get_current_price: the quote when the request succeeds, else the mock
\* price of the upper-cased symbol, else the default.
get_current_price(symbol, response) ==
    IF response.ok
    THEN response.price
    ELSE IF Upper(symbol) \in DOMAIN mock_prices
         THEN mock_prices[Upper(symbol)]
         ELSE DefaultPrice

\* self.positions.get(symbol, 0)
PositionsGet(pos, symbol) ==
    IF symbol \in DOMAIN pos THEN pos[symbol] ELSE 0

\* self.positions[symbol] = v
PositionsSet(pos, symbol, v) ==
    [k \in (DOMAIN pos) \cup {symbol} |-> IF k = symbol THEN v ELSE pos[k]]

\* Variant: the affordability check looks at the sign of the balance only.
BuyAffordable_SignOnly(bal, total_cost) == bal >= 0

\* self.balance >= total_cost   (market BUY, and limit BUY)
BuyAffordable(bal, total_cost) == bal >= total_cost

\* Variant: a SELL of the whole position is refused.
SellCovered_Strict(current_position, quantity) == current_position > quantity

\* Variant: the position check looks at the sign of the position only.
SellCovered_SignOnly(current_position, quantity) == current_position >= 0

\* current_position >= quantity   (market SELL, and limit SELL)
SellCovered(current_position, quantity) == current_position >= quantity

\* Variant: a limit price equal to the market price does not fill.
LimitEligible_Strict(side, price, current_price) ==
    \/ (Upper(side) = "BUY" /\ price > current_price)
    \/ (Upper(side) = "SELL" /\ price < current_price)

\* Variant: the SELL comparison points the same way as the BUY comparison.
LimitEligible_SellAsBuy(side, price, current_price) ==
    \/ (Upper(side) = "BUY" /\ price >= current_price)
    \/ (Upper(side) = "SELL" /\ price >= current_price)

\* The fill condition of place_limit_order.
LimitEligible(side, price, current_price) ==
    \/ (Upper(side) = "BUY" /\ price >= current_price)
    \/ (Upper(side) = "SELL" /\ price <= current_price)

\* Variant: a BUY overwrites the held quantity instead of adding to it.
BuyPosition_Overwrite(pos, symbol, quantity) ==
    PositionsSet(pos, symbol, quantity)

\* self.positions[symbol] = self.positions.get(symbol, 0) + quantity
BuyPosition(pos, symbol, quantity) ==
    PositionsSet(pos, symbol, Fl(PositionsGet(pos, symbol) + quantity))

\* self.positions[symbol] = self.positions.get(symbol, 0) - quantity
SellPosition(pos, symbol, quantity) ==
    PositionsSet(pos, symbol, Fl(PositionsGet(pos, symbol) - quantity))

\* Variant: the counter is not advanced.
NextOrderId_Stuck(counter) == counter

\* self.order_id_counter += 1
NextOrderId(counter) == counter + 1

\* Variant: the status is swapped between the two branches.
MarketStatus_Swapped(ok) == IF ok THEN "REJECTED" ELSE "FILLED"

\* The status place_market_order leaves on the order: 'FILLED' as built,
\* 'REJECTED' written when the balance or position check fails.
MarketStatus(ok) == IF ok THEN "FILLED" ELSE "REJECTED"

\* The status place_limit_order leaves on the order: 'NEW' as built,
\* 'FILLED' written when the fill condition holds, then 'REJECTED' when the
\* balance or position check fails.
LimitStatus(eligible, ok) ==
    IF ~eligible THEN "NEW" ELSE IF ok THEN "FILLED" ELSE "REJECTED"

\* Variant: a limit order fills at its limit price.
LimitFillPrice_AtLimit(price, current_price) == price

\* The price place_limit_order fills at (filled_price, and the factor of
\* total_cost).
LimitFillPrice(price, current_price) == current_price

\* Variant: the new order replaces the most recent one.
AppendOrder_ReplaceLast(log, order) ==
    IF Len(log) = 0 THEN <<order>>
    ELSE Append(SubSeq(log, 1, Len(log) - 1), order)

\* self.orders.append(order)
AppendOrder(log, order) == Append(log, order)

----------------------------------------------------------------------------
(* State machine *)

StartingBalance == 10000

NoPositions == [k \in {} |-> 0]

\* No dict returned by get_account_balance is held by a caller.
NoSnapshot == [taken |-> FALSE]

Init ==
    /\ balance = StartingBalance
    /\ positions = NoPositions
    /\ orders = << >>
    /\ order_id_counter = 1
    /\ call = [op |-> "init"]
    /\ before = [balance |-> StartingBalance, positions |-> NoPositions]
    /\ prev = [balance |-> StartingBalance, positions |-> NoPositions]
    /\ ret = << >>
    /\ threads = [t \in Threads |-> [pc |-> "idle"]]
    /\ snapshot = NoSnapshot
    /\ exchange = << >>
    /\ cli = [pc |-> "credentials"]

\* What every method call of the single-threaded program records: its
\* arguments c, the ledger it started from, and its return value r.
Records(c, r) ==
    /\ call' = c
    /\ before' = [balance |-> balance, positions |-> positions]
    /\ prev' = before
    /\ ret' = r

\* A method call of PaperTradingBot: it touches nothing outside the bot.
Returns(c, r) ==
    /\ Records(c, r)
    /\ UNCHANGED <<threads, snapshot, exchange, cli>>

\* place_market_order(symbol, side, quantity), the price request yielding
\* response.
place_market_order(symbol, side, quantity, response) ==
    LET current_price == get_current_price(symbol, response)
        total_cost == Fl(quantity * current_price)
        order == [orderId    |-> order_id_counter,
                  symbol     |-> Upper(symbol),
                  side       |-> Upper(side),
                  type       |-> "MARKET",
                  quantity   |-> quantity,
                  price      |-> current_price,
                  total_cost |-> total_cost,
                  status     |-> "FILLED"]
        current_position == PositionsGet(positions, symbol)
        ok == IF Upper(side) = "BUY"
              THEN BuyAffordable(balance, total_cost)
              ELSE SellCovered(current_position, quantity)
        final == [order EXCEPT !.status = MarketStatus(ok)]
    IN
    /\ order_id_counter <= MaxOrders
    /\ IF Upper(side) = "BUY"
       THEN IF ok
            THEN /\ balance' = Fl(balance - total_cost)
                 /\ positions' = BuyPosition(positions, symbol, quantity)
            ELSE UNCHANGED <<balance, positions>>
       ELSE IF ok
            THEN /\ balance' = Fl(balance + total_cost)
                 /\ positions' = SellPosition(positions, symbol, quantity)
            ELSE UNCHANGED <<balance, positions>>
    /\ orders' = AppendOrder(orders, final)
    /\ order_id_counter' = NextOrderId(order_id_counter)
    /\ Returns([op |-> "place_market_order", symbol |-> symbol,
                side |-> side, quantity |-> quantity,
                response |-> response],
               final)

\* place_limit_order(symbol, side, quantity, price), the price request
\* yielding response.
place_limit_order(symbol, side, quantity, price, response) ==
    LET current_price == get_current_price(symbol, response)
        order == [orderId              |-> order_id_counter,
                  symbol               |-> Upper(symbol),
                  side                 |-> Upper(side),
                  type                 |-> "LIMIT",
                  quantity             |-> quantity,
                  price                |-> price,
                  current_market_price |-> current_price,
                  status               |-> "NEW"]
        eligible == LimitEligible(side, price, current_price)
        total_cost == Fl(quantity * LimitFillPrice(price, current_price))
        buys == Upper(side) = "BUY" /\ BuyAffordable(balance, total_cost)
        sells == /\ ~buys
                 /\ Upper(side) = "SELL"
                 /\ SellCovered(PositionsGet(positions, symbol), quantity)
        \* order['status'] = 'FILLED'; order['filled_price'] = current_price;
        \* then possibly order['status'] = 'REJECTED'
        touched == [k \in (DOMAIN order) \cup {"filled_price"} |->
                      CASE k = "filled_price" ->
                               LimitFillPrice(price, current_price)
                        [] k = "status" -> LimitStatus(TRUE, buys \/ sells)
                        [] OTHER        -> order[k]]
        final == IF eligible
                 THEN touched
                 ELSE [order EXCEPT !.status = LimitStatus(FALSE, FALSE)]
    IN
    /\ order_id_counter <= MaxOrders
    /\ IF eligible /\ buys
       THEN /\ balance' = Fl(balance - total_cost)
            /\ positions' = BuyPosition(positions, symbol, quantity)
       ELSE IF eligible /\ sells
            THEN /\ balance' = Fl(balance + total_cost)
                 /\ positions' = SellPosition(positions, symbol, quantity)
            ELSE UNCHANGED <<balance, positions>>
    /\ orders' = AppendOrder(orders, final)
    /\ order_id_counter' = NextOrderId(order_id_counter)
    /\ Returns([op |-> "place_limit_order", symbol |-> symbol,
                side |-> side, quantity |-> quantity, price |-> price,
                response |-> response],
               final)

Next ==
    \/ \E symbol \in Symbols, side \in Sides, quantity \in Quantities :
          \E response \in Responses(symbol) :
          place_market_order(symbol, side, quantity, response)
    \/ \E symbol \in Symbols, side \in Sides, quantity \in Quantities,
          price \in LimitPrices :
          \E response \in Responses(symbol) :
          place_limit_order(symbol, side, quantity, price, response)

Spec == Init /\ [][Next]_vars

----------------------------------------------------------------------------
(* The reporting methods, and the program with all five menu operations *)

\* The price requests get_account_balance makes, one per held symbol.
BalanceResponses(pos) ==
    {f \in [DOMAIN pos -> UNION {Responses(k) : k \in DOMAIN pos}] :
        \A k \in DOMAIN pos : f[k] \in Responses(k)}

\* total_value of get_account_balance: the balance plus quantity * price
\* of every position with quantity > 0, added one at a time.
RECURSIVE PortfolioValue(_, _, _, _)
PortfolioValue(total, pos, keys, responses) ==
    IF keys = {}
    THEN total
    ELSE LET symbol == CHOOSE k \in keys : TRUE
             position_value ==
                 Fl(pos[symbol] * get_current_price(symbol, responses[symbol]))
         IN PortfolioValue(IF pos[symbol] > 0
                           THEN Fl(total + position_value)
                           ELSE total,
                           pos, keys \ {symbol}, responses)

\* get_account_balance(), its price requests yielding responses.
get_account_balance(responses) ==
    /\ UNCHANGED <<balance, positions, orders, order_id_counter>>
    /\ Returns([op |-> "get_account_balance", responses |-> responses],
               [cash_balance |-> balance,
                positions |-> positions,
                total_portfolio_value |->
                    PortfolioValue(balance, positions, DOMAIN positions,
                                   responses)])

\* The length of the slice get_order_history returns.
HistoryLength == 10

\* get_order_history(): self.orders[-10:]
get_order_history ==
    /\ UNCHANGED <<balance, positions, orders, order_id_counter>>
    /\ Returns([op |-> "get_order_history"],
               IF Len(orders) <= HistoryLength
               THEN orders
               ELSE SubSeq(orders, Len(orders) - HistoryLength + 1,
                           Len(orders)))

\* Menu option 5: get_current_price(symbol) called by the user.
query_current_price(symbol, response) ==
    /\ UNCHANGED <<balance, positions, orders, order_id_counter>>
    /\ Returns([op |-> "get_current_price", symbol |-> symbol,
                response |-> response],
               get_current_price(symbol, response))

\* Inputs of the specification with all five operations: the three symbols
\* of the mock table, one in lower case, and a symbol it does not know.
QuerySymbols == {"BTCUSDT", "ethusdt", "BNBUSDT", "XYZUSDT"}

NextQueries ==
    \/ \E symbol \in QuerySymbols, side \in {"BUY", "sell"} :
          \E response \in Responses(symbol) :
          place_market_order(symbol, side, 1, response)
    \/ \E symbol \in QuerySymbols, side \in {"BUY", "sell"} :
          \E response \in Responses(symbol) :
          place_limit_order(symbol, side, 1, 100, response)
    \/ \E responses \in BalanceResponses(positions) :
          get_account_balance(responses)
    \/ get_order_history
    \/ \E symbol \in QuerySymbols :
          \E response \in Responses(symbol) :
          query_current_price(symbol, response)

SpecQueries == Init /\ [][NextQueries]_vars

----------------------------------------------------------------------------
(* place_market_order called from the threads of a concurrent host.  The   *)
(* method takes no lock, and Python promises no atomicity beyond the       *)
(* single read or write of an attribute, so every read and every write of  *)
(* self.balance, self.positions, self.orders and self.order_id_counter is  *)
(* a step of its own; what a thread has read it keeps in its locals.       *)

\* Thread t moves to pc with its locals changed as given by loc.
Step(t, loc) ==
    /\ threads' = [threads EXCEPT ![t] = loc]
    /\ UNCHANGED <<snapshot, exchange, cli>>

\* Lines 44-45: the price request and total_cost (no shared state).
mo_call(t, symbol, side, quantity, response) ==
    /\ threads[t].pc = "idle"
    /\ LET current_price == get_current_price(symbol, response) IN
       Step(t, [pc |-> "build", symbol |-> symbol, side |-> side,
                quantity |-> quantity, current_price |-> current_price,
                total_cost |-> Fl(quantity * current_price)])
    /\ UNCHANGED <<balance, positions, orders, order_id_counter,
                   call, before, prev, ret>>

\* Lines 47-57: the order dict, reading self.order_id_counter.
mo_build(t) ==
    LET l == threads[t] IN
    /\ l.pc = "build"
    /\ Step(t, [pc |-> "check", symbol |-> l.symbol, side |-> l.side,
                quantity |-> l.quantity, total_cost |-> l.total_cost,
                order |-> [orderId    |-> order_id_counter,
                           symbol     |-> Upper(l.symbol),
                           side       |-> Upper(l.side),
                           type       |-> "MARKET",
                           quantity   |-> l.quantity,
                           price      |-> l.current_price,
                           total_cost |-> l.total_cost,
                           status     |-> "FILLED"]])
    /\ UNCHANGED <<balance, positions, orders, order_id_counter,
                   call, before, prev, ret>>

\* Lines 59-60 and 67-68 (BUY), 73-75 and 82-83 (SELL): the check, reading
\* self.balance or self.positions; a failed check marks the local order
\* REJECTED.
mo_check(t) ==
    LET l == threads[t]
        current_position == PositionsGet(positions, l.symbol)
        ok == IF Upper(l.side) = "BUY"
              THEN BuyAffordable(balance, l.total_cost)
              ELSE SellCovered(current_position, l.quantity)
    IN
    /\ l.pc = "check"
    /\ Step(t, [pc |-> IF ok THEN "load_balance" ELSE "append",
                symbol |-> l.symbol, side |-> l.side,
                quantity |-> l.quantity, total_cost |-> l.total_cost,
                current_position |-> current_position,
                order |-> [l.order EXCEPT !.status = MarketStatus(ok)]])
    /\ UNCHANGED <<balance, positions, orders, order_id_counter,
                   call, before, prev, ret>>

\* Lines 61 and 76, first half: read self.balance.
mo_load_balance(t) ==
    LET l == threads[t] IN
    /\ l.pc = "load_balance"
    /\ Step(t, [pc |-> "store_balance", symbol |-> l.symbol,
                side |-> l.side, quantity |-> l.quantity,
                total_cost |-> l.total_cost,
                current_position |-> l.current_position,
                order |-> l.order, loaded |-> balance])
    /\ UNCHANGED <<balance, positions, orders, order_id_counter,
                   call, before, prev, ret>>

\* Lines 61 and 76, second half: write self.balance.
mo_store_balance(t) ==
    LET l == threads[t] IN
    /\ l.pc = "store_balance"
    /\ balance' = IF Upper(l.side) = "BUY"
                  THEN Fl(l.loaded - l.total_cost)
                  ELSE Fl(l.loaded + l.total_cost)
    /\ Step(t, [pc |-> IF Upper(l.side) = "BUY" THEN "load_position"
                       ELSE "store_position",
                symbol |-> l.symbol, side |-> l.side,
                quantity |-> l.quantity,
                current_position |-> l.current_position,
                order |-> l.order])
    /\ UNCHANGED <<positions, orders, order_id_counter,
                   call, before, prev, ret>>

\* Line 62, first half: self.positions.get(symbol, 0).  (Line 77 uses the
\* current_position read on line 74.)
mo_load_position(t) ==
    LET l == threads[t] IN
    /\ l.pc = "load_position"
    /\ Step(t, [pc |-> "store_position", symbol |-> l.symbol,
                side |-> l.side, quantity |-> l.quantity,
                current_position |-> PositionsGet(positions, l.symbol),
                order |-> l.order])
    /\ UNCHANGED <<balance, positions, orders, order_id_counter,
                   call, before, prev, ret>>

\* Lines 62 and 77: write self.positions[symbol].
mo_store_position(t) ==
    LET l == threads[t] IN
    /\ l.pc = "store_position"
    /\ positions' = PositionsSet(positions, l.symbol,
                        IF Upper(l.side) = "BUY"
                        THEN Fl(l.current_position + l.quantity)
                        ELSE Fl(l.current_position - l.quantity))
    /\ Step(t, [pc |-> "append", order |-> l.order])
    /\ UNCHANGED <<balance, orders, order_id_counter,
                   call, before, prev, ret>>

\* Line 88: self.orders.append(order).
mo_append(t) ==
    LET l == threads[t] IN
    /\ l.pc = "append"
    /\ orders' = AppendOrder(orders, l.order)
    /\ Step(t, [pc |-> "load_id", order |-> l.order])
    /\ UNCHANGED <<balance, positions, order_id_counter,
                   call, before, prev, ret>>

\* Line 89, first half: read self.order_id_counter.
mo_load_id(t) ==
    LET l == threads[t] IN
    /\ l.pc = "load_id"
    /\ Step(t, [pc |-> "store_id", order |-> l.order,
                loaded |-> order_id_counter])
    /\ UNCHANGED <<balance, positions, orders, order_id_counter,
                   call, before, prev, ret>>

\* Line 89, second half, and line 90: write self.order_id_counter, return.
mo_store_id(t) ==
    LET l == threads[t] IN
    /\ l.pc = "store_id"
    /\ order_id_counter' = NextOrderId(l.loaded)
    /\ Step(t, [pc |-> "done", order |-> l.order])
    /\ UNCHANGED <<balance, positions, orders, call, before, prev, ret>>

\* Each thread places one market order of 6 XYZUSDT, priced 1000 each by
\* the fallback: the starting balance pays for one such BUY, not for two.
NextConcurrent ==
    \E t \in Threads :
        \/ \E side \in {"BUY", "sell"} :
              mo_call(t, "XYZUSDT", side, 6, [ok |-> FALSE, price |-> 0])
        \/ mo_build(t)
        \/ mo_check(t)
        \/ mo_load_balance(t)
        \/ mo_store_balance(t)
        \/ mo_load_position(t)
        \/ mo_store_position(t)
        \/ mo_append(t)
        \/ mo_load_id(t)
        \/ mo_store_id(t)

SpecConcurrent == Init /\ [][NextConcurrent]_vars

----------------------------------------------------------------------------
(* Round trips under float rounding: market orders on an account whose     *)
(* balance uses every significant bit, as a balance does after earlier     *)
(* trades at fractional prices.                                            *)

\* Balances above FloatLimit, where the floats are 2 apart.
RoundTripBalances == {FloatLimit + 2, FloatLimit + 4, FloatLimit + 6}

\* Quotes of the price request.
RoundTripResponses == {[ok |-> TRUE, price |-> p] : p \in {1, 3, 5}}

InitRoundTrip ==
    /\ balance \in RoundTripBalances
    /\ positions = NoPositions
    /\ orders = << >>
    /\ order_id_counter = 1
    /\ call = [op |-> "init"]
    /\ before = [balance |-> balance, positions |-> NoPositions]
    /\ prev = [balance |-> balance, positions |-> NoPositions]
    /\ ret = << >>
    /\ threads = [t \in Threads |-> [pc |-> "idle"]]
    /\ snapshot = NoSnapshot
    /\ exchange = << >>
    /\ cli = [pc |-> "credentials"]

NextRoundTrip ==
    \E side \in {"BUY", "sell"}, response \in RoundTripResponses :
        place_market_order("BTCUSDT", side, 1, response)

SpecRoundTrip == InitRoundTrip /\ [][NextRoundTrip]_vars

----------------------------------------------------------------------------
(* A caller that keeps what get_account_balance returned.  The returned    *)
(* dict is new, its 'cash_balance' and 'total_portfolio_value' are floats, *)
(* and its 'positions' is the object self.positions itself (line 147), the *)
(* one dict the bot creates in __init__ and from then on only writes into. *)

\* The reference to the dict object self.positions.
SelfPositions == [ref |-> "self.positions"]

\* The contents of the dict a reference leads to.
Deref(r) == IF r = SelfPositions THEN positions ELSE NoPositions

\* balance = bot.get_account_balance(), as in main(): the caller keeps the
\* returned dict.  returned_positions is history, the contents of
\* 'positions' when the call returned.
keep_account_balance ==
    /\ call.op = "get_account_balance"
    /\ snapshot' = [taken |-> TRUE,
                    cash_balance |-> ret.cash_balance,
                    positions |-> SelfPositions,
                    total_portfolio_value |-> ret.total_portfolio_value,
                    returned_positions |-> ret.positions]
    /\ UNCHANGED <<balance, positions, orders, order_id_counter, call,
                   before, prev, ret, threads, exchange, cli>>

\* The caller writes into the dict it holds: balance['positions'][symbol] = v.
\* The write lands in the object the reference leads to.
snapshot_setitem(symbol, v) ==
    /\ snapshot.taken
    /\ snapshot.positions = SelfPositions
    /\ positions' = PositionsSet(positions, symbol, v)
    /\ Records([op |-> "snapshot_setitem", symbol |-> symbol, value |-> v],
               << >>)
    /\ UNCHANGED <<balance, orders, order_id_counter, threads, snapshot,
                   exchange, cli>>

\* The values a caller writes into the dict it holds.
SnapshotWrites == {0, 5}

NextSnapshot ==
    \/ \E side \in {"BUY", "sell"} :
          \E response \in Responses("BTCUSDT") :
          place_market_order("BTCUSDT", side, 1, response)
    \/ \E responses \in BalanceResponses(positions) :
          get_account_balance(responses)
    \/ keep_account_balance
    \/ \E v \in SnapshotWrites : snapshot_setitem("BTCUSDT", v)

SpecSnapshot == Init /\ [][NextSnapshot]_vars

----------------------------------------------------------------------------
(* The bot trading one symbol at a price that never changes.  Amounts are  *)
(* in units of 1/ConserveUnit, so that costs have significant bits below   *)
(* the spacing of the floats around the balance, as a cost like 504.6258   *)
(* has below the spacing of the doubles around 10000.0.                    *)

\* Units per unit of currency.
ConserveUnit == 1024

\* The starting balance, 10000.0, in these units.
ConserveStart == StartingBalance * ConserveUnit

\* The one answer every price request gets: 140005 / 1024, about 136.72.
ConserveQuote == [ok |-> TRUE, price |-> 140005]

ConserveQuantities == {1, 2, 3}

\* Limit prices below and above the quote.
ConserveLimitPrices == {100000, 200000}

InitConserve ==
    /\ balance = ConserveStart
    /\ positions = NoPositions
    /\ orders = << >>
    /\ order_id_counter = 1
    /\ call = [op |-> "init"]
    /\ before = [balance |-> balance, positions |-> NoPositions]
    /\ prev = [balance |-> balance, positions |-> NoPositions]
    /\ ret = << >>
    /\ threads = [t \in Threads |-> [pc |-> "idle"]]
    /\ snapshot = NoSnapshot
    /\ exchange = << >>
    /\ cli = [pc |-> "credentials"]

NextConserve ==
    \/ \E side \in {"BUY", "sell"}, quantity \in ConserveQuantities :
          place_market_order("BTCUSDT", side, quantity, ConserveQuote)
    \/ \E side \in {"BUY", "sell"}, quantity \in ConserveQuantities,
          price \in ConserveLimitPrices :
          place_limit_order("BTCUSDT", side, quantity, price, ConserveQuote)

SpecConserve == InitConserve /\ [][NextConserve]_vars

----------------------------------------------------------------------------
(* The exchange wrappers: class BasicBot of src/bot1.py and src/bot2.py.   *)
(* Their order methods are the same in both files but for bot1's logging   *)
(* of the request and the response, and bot1 alone has place_oco_order.    *)
(* Quantities are integers counting thousandths; prices are whole numbers. *)

Bots == {"bot1", "bot2"}

\* What client.futures_exchange_info() yields: an exception (ok = FALSE)
\* or the exchange's symbols with their filters.  BTCUSDT has a LOT_SIZE
\* filter (minQty 0.01, maxQty 0.05, stepSize 0.01), ETHUSDT has filters
\* but none of type LOT_SIZE, XYZUSDT is not listed.
InfoResponses ==
    {[ok |-> FALSE, symbols |-> {}],
     [ok |-> TRUE,
      symbols |->
          {[symbol |-> "BTCUSDT",
            filters |-> <<[filterType |-> "PRICE_FILTER"],
                          [filterType |-> "LOT_SIZE", minQty |-> 10,
                           maxQty |-> 50, stepSize |-> 10]>>],
           [symbol |-> "ETHUSDT",
            filters |-> <<[filterType |-> "PRICE_FILTER"]>>]}]}

\* Symbols, quantities and prices the caller passes to the wrappers.
WrapperSymbols == {"btcusdt", "ETHUSDT", "XYZUSDT"}
WrapperQuantities == {4, 14, 60}
OcoQuantities == {14, 22, 44}
WrapperPrice == 100
WrapperStopPrice == 90

\* str(price) for the prices the model passes.
Str(p) ==
    CASE p = 100 -> "100.0"
      [] p = 90  -> "90.0"

\* side not in ['BUY', 'SELL'], negated; side is already upper-cased.
SideValid_Any(side) == TRUE

SideValid(side) == side \in {"BUY", "SELL"}

\* get_symbol_info(symbol): the listed symbol equal to symbol.upper(), or
\* an exception (the request's, or ValueError when it is not listed).
get_symbol_info(symbol, info) ==
    IF ~info.ok
    THEN [ok |-> FALSE, error |-> "Exception"]
    ELSE IF \E s \in info.symbols : s.symbol = Upper(symbol)
         THEN [ok |-> TRUE,
               info |-> CHOOSE s \in info.symbols : s.symbol = Upper(symbol)]
         ELSE [ok |-> FALSE, error |-> "ValueError"]

\* len(str(step_size).split('.')[-1]): the digits str() prints after the
\* point, for step sizes 0.001, 0.01, 0.1 and 1.0.
Precision(step_size) ==
    CASE step_size = 1    -> 3
      [] step_size = 10   -> 2
      [] step_size = 100  -> 1
      [] step_size = 1000 -> 1

\* round(quantity, precision): the nearest multiple of 10^-precision, a
\* value exactly half way going to the even multiple.
Round(quantity, precision) ==
    LET grain == 10 ^ (3 - precision)
        m == quantity \div grain
        r == quantity % grain
        up == \/ 2 * r > grain
              \/ (2 * r = grain /\ m % 2 = 1)
    IN (IF up THEN m + 1 ELSE m) * grain

\* The first filter of type LOT_SIZE from position i on, or 0 if none.
RECURSIVE FirstLotSize(_, _)
FirstLotSize(filters, i) ==
    IF i > Len(filters) THEN 0
    ELSE IF filters[i].filterType = "LOT_SIZE" THEN i
    ELSE FirstLotSize(filters, i + 1)

\* validate_quantity(symbol, quantity): the adjusted quantity, or the
\* exception it raises again.
validate_quantity(symbol, quantity, info) ==
    LET symbol_info == get_symbol_info(symbol, info) IN
    IF ~symbol_info.ok
    THEN symbol_info
    ELSE LET filters == symbol_info.info.filters
             i == FirstLotSize(filters, 1)
         IN IF i = 0
            THEN [ok |-> TRUE, quantity |-> quantity]
            ELSE IF quantity < filters[i].minQty
            THEN [ok |-> FALSE, error |-> "ValueError"]
            ELSE IF quantity > filters[i].maxQty
            THEN [ok |-> FALSE, error |-> "ValueError"]
            ELSE [ok |-> TRUE,
                  quantity |->
                      Round(quantity, Precision(filters[i].stepSize))]

\* The keyword arguments of futures_create_order that depend on the type.
OrderArgs(type, price, stop_price) ==
    CASE type = "MARKET" -> [type |-> "MARKET"]
      [] type = "LIMIT"  -> [type |-> "LIMIT", timeInForce |-> "GTC",
                             price |-> Str(price)]
      [] type = "STOP"   -> [type |-> "STOP", timeInForce |-> "GTC",
                             price |-> Str(price),
                             stopPrice |-> Str(stop_price)]

\* A raised exception, as the outcome of a method, with the exchange left
\* as it is in exch.
Raise(error, exch) == [raised |-> TRUE, error |-> error, exchange |-> exch]

\* The body the three order methods share: upper-case symbol and side,
\* check the side, validate the quantity, call futures_create_order.  The
\* exchange, holding the orders exch, accepts the order or answers with
\* an error (accept = FALSE), which the method raises again.
PlaceOrder(type, symbol, side, quantity, price, stop_price, info, accept, exch) ==
    IF ~SideValid(Upper(side))
    THEN Raise("ValueError", exch)
    ELSE LET v == validate_quantity(Upper(symbol), quantity, info) IN
         IF ~v.ok
         THEN Raise(v.error, exch)
         ELSE IF ~accept
         THEN Raise("BinanceAPIException", exch)
         ELSE LET order == [orderId |-> Len(exch) + 1,
                            symbol |-> Upper(symbol),
                            side |-> Upper(side),
                            quantity |-> v.quantity]
                           @@ OrderArgs(type, price, stop_price)
              IN [raised |-> FALSE, order |-> order,
                  exchange |-> Append(exch, order)]

\* What a call of a wrapper method records: its arguments c, the orders
\* the exchange held when it began, and its outcome r.
WrapperReturns(c, r) ==
    /\ call' = c
    /\ before' = [exchange |-> exchange]
    /\ ret' = r
    /\ exchange' = r.exchange
    /\ UNCHANGED <<balance, positions, orders, order_id_counter, prev,
                   threads, snapshot, cli>>

\* BasicBot.place_market_order, place_limit_order, place_stop_limit_order
\* (type MARKET, LIMIT, STOP) of bot1 or bot2.
BasicBot_place_order(bot, type, symbol, side, quantity, price, stop_price, info, accept) ==
    /\ Len(exchange) < MaxSubmitted
    /\ WrapperReturns([op |-> "BasicBot.place_order", bot |-> bot,
                       type |-> type, symbol |-> symbol, side |-> side,
                       quantity |-> quantity, info |-> info,
                       accept |-> accept],
                      PlaceOrder(type, symbol, side, quantity, price,
                                 stop_price, info, accept, exchange))

\* quantity/2, for the even counts the model passes.
Half(quantity) == quantity \div 2

\* bot1's BasicBot.place_oco_order: the checks of the other methods, then
\* place_limit_order and place_stop_limit_order with half the quantity
\* each.  Every leg makes its own exchange-info request (infos[2],
\* infos[3]) and its own futures_create_order call (accepts[1],
\* accepts[2]); an exception of either leg is raised again as it is.
BasicBot_place_oco_order(symbol, side, quantity, price, stop_price, stop_limit_price, infos, accepts) ==
    /\ Len(exchange) + 2 <= MaxOrders
    /\ LET c == [op |-> "BasicBot.place_oco_order", bot |-> "bot1",
                 symbol |-> symbol, side |-> side, quantity |-> quantity,
                 infos |-> infos, accepts |-> accepts]
           v == validate_quantity(Upper(symbol), quantity, infos[1])
       IN IF ~SideValid(Upper(side))
          THEN WrapperReturns(c, Raise("ValueError", exchange))
          ELSE IF ~v.ok
          THEN WrapperReturns(c, Raise(v.error, exchange))
          ELSE LET limit_order ==
                       PlaceOrder("LIMIT", Upper(symbol), Upper(side),
                                  Half(v.quantity), price, price,
                                  infos[2], accepts[1], exchange)
                   stop_order ==
                       PlaceOrder("STOP", Upper(symbol), Upper(side),
                                  Half(v.quantity), stop_limit_price,
                                  stop_price, infos[3], accepts[2],
                                  limit_order.exchange)
               IN IF limit_order.raised
                  THEN WrapperReturns(c, limit_order)
                  ELSE IF stop_order.raised
                  THEN WrapperReturns(c, stop_order)
                  ELSE WrapperReturns(c,
                           [raised |-> FALSE,
                            orders |-> <<limit_order.order,
                                         stop_order.order>>,
                            exchange |-> stop_order.exchange])

NextWrappers ==
    \E bot \in Bots, type \in {"MARKET", "LIMIT", "STOP"},
       symbol \in WrapperSymbols, side \in Sides,
       quantity \in WrapperQuantities, info \in InfoResponses,
       accept \in BOOLEAN :
       BasicBot_place_order(bot, type, symbol, side, quantity,
                            WrapperPrice, WrapperStopPrice, info, accept)

SpecWrappers == Init /\ [][NextWrappers]_vars

NextOco ==
    \E symbol \in WrapperSymbols, side \in Sides,
       quantity \in OcoQuantities,
       infos \in [1..3 -> InfoResponses], accepts \in [1..2 -> BOOLEAN] :
       BasicBot_place_oco_order(symbol, side, quantity, WrapperPrice,
                                WrapperStopPrice, WrapperStopPrice,
                                infos, accepts)

SpecOco == Init /\ [][NextOco]_vars

----------------------------------------------------------------------------
(* main() of src/bot1.py up to the menu: the credentials, the choice of    *)
(* the trading environment, the confirmation of mainnet, and the           *)
(* construction of the BasicBot.  Each action is one stretch of main()     *)
(* between two waits for input.                                            *)

\* str.strip() on the lines the model types in.
Strip(s) ==
    CASE s = " 1 "      -> "1"
      [] s = " k2 "     -> "k2"
      [] s = " "        -> ""
      [] s = "CONFIRM " -> "CONFIRM"
      [] OTHER          -> s

\* The lines typed at the prompts.
ApiKeyInputs == {"", "k1", " k2 "}
ApiSecretInputs == {" ", "s1"}
EnvChoiceInputs == {"1", " 1 ", "2", "3", ""}
ConfirmInputs == {"CONFIRM", "CONFIRM ", "confirm", ""}

\* The value of confirm while main() has not asked for it.
NotAsked == "<not asked>"

\* testnet = True if env_choice == '1' else False
TestnetChoice(env_choice) == env_choice = "1"

\* The confirmation test, were the typed line stripped first.
Confirmed_Stripped(confirm) == Strip(confirm) = "CONFIRM"

\* confirm != 'CONFIRM', negated; the typed line is not stripped.
Confirmed(confirm) == confirm = "CONFIRM"

\* Lines 583-588: both credentials are read; main() returns if one is
\* empty.
cli_credentials(key, secret) ==
    /\ cli.pc = "credentials"
    /\ LET api_key == Strip(key)
           api_secret == Strip(secret)
       IN cli' = [pc |-> IF api_key = "" \/ api_secret = ""
                         THEN "exit" ELSE "env_choice",
                  api_key |-> api_key,
                  api_secret |-> api_secret]
    /\ UNCHANGED <<balance, positions, orders, order_id_counter, call,
                   before, prev, ret, threads, snapshot, exchange>>

\* Lines 593-597: the environment is read and testnet set from it.
cli_env_choice(line) ==
    /\ cli.pc = "env_choice"
    /\ LET env_choice == Strip(line)
           testnet == TestnetChoice(env_choice)
       IN cli' = [pc |-> IF testnet THEN "construct" ELSE "confirm",
                  api_key |-> cli.api_key,
                  api_secret |-> cli.api_secret,
                  env_choice |-> env_choice,
                  testnet |-> testnet,
                  confirm |-> NotAsked]
    /\ UNCHANGED <<balance, positions, orders, order_id_counter, call,
                   before, prev, ret, threads, snapshot, exchange>>

\* Lines 598-601: the confirmation is read; anything but CONFIRM switches
\* back to testnet.
cli_confirm(line) ==
    /\ cli.pc = "confirm"
    /\ cli' = [cli EXCEPT !.pc = "construct",
                          !.confirm = line,
                          !.testnet = IF Confirmed(line)
                                      THEN cli.testnet ELSE TRUE]
    /\ UNCHANGED <<balance, positions, orders, order_id_counter, call,
                   before, prev, ret, threads, snapshot, exchange>>

\* The number of configurations initialize_client tries.
Configs == 3

\* The first configuration from i on whose futures_time() call succeeds,
\* or 0 if none does.
RECURSIVE FirstConfig(_, _)
FirstConfig(attempts, i) ==
    IF i > Configs THEN 0
    ELSE IF attempts[i] THEN i
    ELSE FirstConfig(attempts, i + 1)

\* Lines 603-605 and 730-731: BasicBot(api_key, api_secret, testnet=testnet).
\* __init__ keeps testnet in self.testnet; initialize_client makes, per
\* configuration, a client with testnet=True if self.testnet and with
\* testnet=False otherwise, and keeps the first that answers
\* futures_time() (attempts); test_connection then succeeds or raises
\* (connection).  An exception of either ends main().
cli_construct(attempts, connection) ==
    /\ cli.pc = "construct"
    /\ LET config == FirstConfig(attempts, 1)
       IN cli' = [pc |-> IF config # 0 /\ connection
                         THEN "menu" ELSE "failed",
                  api_key |-> cli.api_key,
                  api_secret |-> cli.api_secret,
                  env_choice |-> cli.env_choice,
                  testnet |-> cli.testnet,
                  confirm |-> cli.confirm,
                  bot_testnet |-> cli.testnet,
                  client |-> IF config = 0
                             THEN [config |-> 0]
                             ELSE [config |-> config,
                                   testnet |-> cli.testnet]]
    /\ UNCHANGED <<balance, positions, orders, order_id_counter, call,
                   before, prev, ret, threads, snapshot, exchange>>

NextCli ==
    \/ \E key \in ApiKeyInputs, secret \in ApiSecretInputs :
          cli_credentials(key, secret)
    \/ \E line \in EnvChoiceInputs : cli_env_choice(line)
    \/ \E line \in ConfirmInputs : cli_confirm(line)
    \/ \E attempts \in [1..Configs -> BOOLEAN], connection \in BOOLEAN :
          cli_construct(attempts, connection)

SpecCli == Init /\ [][NextCli]_vars

----------------------------------------------------------------------------
(* Vocabulary of the properties *)

\* The order the most recent call appended and returned.
LastOrder == orders[Len(orders)]

IsMarketCall == call.op = "place_market_order"
IsLimitCall == call.op = "place_limit_order"

\* The price that call's get_current_price returned.
CallPrice == get_current_price(call.symbol, call.response)

\* The call left the cash balance and every position as they were.
LedgerUnchanged == balance = before.balance /\ positions = before.positions

\* Held quantity of a symbol in a positions map, absent counting as 0.
Held(pos, symbol) == IF symbol \in DOMAIN pos THEN pos[symbol] ELSE 0

\* Every position other than that of the call's symbol is as it was.
OtherPositionsUnchanged ==
    \A k \in (DOMAIN positions) \cup (DOMAIN before.positions) :
        k # call.symbol => Held(positions, k) = Held(before.positions, k)

----------------------------------------------------------------------------
(* C1: the cash balance is >= 0 after every processed order.  Stated as    *)
(* claimed; the code breaks it (a SELL of a negative quantity passes the   *)
(* position check and credits a negative amount).                          *)
BalanceNonNegative == balance >= 0

(* C2: every quantity stored in the positions map is >= 0 after every      *)
(* processed order.  Stated as claimed; the code breaks it (a BUY of a     *)
(* negative quantity passes the affordability check).                      *)
PositionsNonNegative == \A k \in DOMAIN positions : positions[k] >= 0

(* C3: each submitted order, filled or not, gets the id one greater than   *)
(* the previous order's, starting at 1, and the counter is always one past *)
(* the last id handed out: no id is reused, the counter never decreases.   *)
IdsIncreaseByOne ==
    /\ \A i \in 1..Len(orders) :
          orders[i].orderId = IF i = 1 THEN 1 ELSE orders[i-1].orderId + 1
    /\ order_id_counter = IF Len(orders) = 0 THEN 1
                          ELSE LastOrder.orderId + 1

\* Witness of C3: a rejected order used up id 1 and the next order got 2.
IdsIncreaseByOne_Witness ==
    /\ Len(orders) = 2
    /\ orders[1].status = "REJECTED"
    /\ orders[2].orderId = 2
    /\ order_id_counter = 3

MarketBuyFills ==
    (/\ IsMarketCall
     /\ Upper(call.side) = "BUY"
     /\ call.quantity > 0
     /\ call.quantity * CallPrice <= before.balance)
    => /\ LastOrder.status = "FILLED"
       /\ LastOrder.price = CallPrice
       /\ balance = before.balance - call.quantity * CallPrice
       /\ Held(positions, call.symbol)
             = Held(before.positions, call.symbol) + call.quantity
       /\ OtherPositionsUnchanged

\* Witness of C5: an affordable market BUY of a symbol already held, with
\* another symbol held too.
MarketBuyFills_Witness ==
    /\ IsMarketCall
    /\ Upper(call.side) = "BUY"
    /\ call.quantity > 0
    /\ call.quantity * CallPrice <= before.balance
    /\ LastOrder.status = "FILLED"
    /\ Held(before.positions, call.symbol) > 0

(* C6: a market SELL of q > 0 at price p with held position >= q is FILLED *)
(* at price p, the position falls by q and the balance grows by q*p.       *)
MarketSellFills ==
    (/\ IsMarketCall
     /\ Upper(call.side) = "SELL"
     /\ call.quantity > 0
     /\ Held(before.positions, call.symbol) >= call.quantity)
    => /\ LastOrder.status = "FILLED"
       /\ LastOrder.price = CallPrice
       /\ Held(positions, call.symbol)
             = Held(before.positions, call.symbol) - call.quantity
       /\ balance = before.balance + call.quantity * CallPrice

\* Witness of C6: a market SELL of the whole held position, filled.
MarketSellFills_Witness ==
    /\ IsMarketCall
    /\ Upper(call.side) = "SELL"
    /\ call.quantity > 0
    /\ Held(before.positions, call.symbol) = call.quantity
    /\ LastOrder.status = "FILLED"
    /\ balance = before.balance + call.quantity * CallPrice

(* C7: a market BUY whose cost q*p exceeds the cash balance is REJECTED    *)
(* and leaves the balance and all positions as they were.                  *)
MarketBuyInsufficientFunds ==
    (/\ IsMarketCall
     /\ Upper(call.side) = "BUY"
     /\ call.quantity * CallPrice > before.balance)
    => /\ LastOrder.status = "REJECTED"
       /\ LedgerUnchanged

\* Witness of C7: a market BUY costing more than a positive balance,
\* rejected.
MarketBuyInsufficientFunds_Witness ==
    /\ IsMarketCall
    /\ Upper(call.side) = "BUY"
    /\ before.balance > 0
    /\ call.quantity * CallPrice > before.balance
    /\ LastOrder.status = "REJECTED"

(* C8: a market SELL of q > 0 of a symbol whose held position is 0, absent *)
(* or smaller than q is REJECTED and leaves balance and positions as they  *)
(* were.                                                                   *)
MarketSellInsufficientPosition ==
    (/\ IsMarketCall
     /\ Upper(call.side) = "SELL"
     /\ call.quantity > 0
     /\ Held(before.positions, call.symbol) < call.quantity)
    => /\ LastOrder.status = "REJECTED"
       /\ LedgerUnchanged

\* Witness of C8: a market SELL of a symbol that is not in the positions
\* map, rejected.
MarketSellInsufficientPosition_Witness ==
    /\ IsMarketCall
    /\ Upper(call.side) = "SELL"
    /\ call.quantity > 0
    /\ call.symbol \notin DOMAIN before.positions
    /\ LastOrder.status = "REJECTED"

LimitFillsAtMarketPrice ==
    (IsLimitCall /\ LastOrder.status = "FILLED")
    => /\ LastOrder.filled_price = CallPrice
       /\ LastOrder.current_market_price = CallPrice
       /\ Upper(call.side) \in {"BUY", "SELL"}
       /\ Upper(call.side) = "BUY"
            => balance = before.balance - call.quantity * CallPrice
       /\ Upper(call.side) = "SELL"
            => balance = before.balance + call.quantity * CallPrice

\* Witness of C11: a limit BUY filled below its limit price.
LimitFillsAtMarketPrice_Witness ==
    /\ IsLimitCall
    /\ Upper(call.side) = "BUY"
    /\ call.quantity > 0
    /\ LastOrder.status = "FILLED"
    /\ call.price > CallPrice
    /\ balance = before.balance - call.quantity * CallPrice

(* C12: when a market BUY of q is FILLED and the next call is a market     *)
(* SELL of the same q of the same symbol at the same price, the SELL is    *)
(* FILLED and the balance and the position of the symbol are back at their *)
(* values before the BUY.  Stated as claimed; the code breaks it, because  *)
(* (B - c) + c is rounded twice and need not be B.                         *)
RoundTripExact ==
    (/\ Len(orders) >= 2
     /\ IsMarketCall
     /\ Upper(call.side) = "SELL"
     /\ orders[Len(orders) - 1].type = "MARKET"
     /\ orders[Len(orders) - 1].side = "BUY"
     /\ orders[Len(orders) - 1].status = "FILLED"
     /\ orders[Len(orders) - 1].symbol = LastOrder.symbol
     /\ orders[Len(orders) - 1].quantity = call.quantity
     /\ orders[Len(orders) - 1].price = CallPrice)
    => /\ LastOrder.status = "FILLED"
       /\ balance = prev.balance
       /\ Held(positions, call.symbol) = Held(prev.positions, call.symbol)

(* C13: an order, market or limit, BUY or SELL, whose quantity is <= 0 is  *)
(* never FILLED and leaves the balance and every position as they were.    *)
(* Stated as claimed; the code breaks it, for it validates no quantity.    *)
NonPositiveQuantityRefused ==
    ((IsMarketCall \/ IsLimitCall) /\ call.quantity <= 0)
    => (LastOrder.status # "FILLED" /\ LedgerUnchanged)

\* The fallback price C14 names for a symbol.
ClaimedFallback(symbol) ==
    CASE Upper(symbol) = "BTCUSDT" -> 43000
      [] Upper(symbol) = "ETHUSDT" -> 2500
      [] Upper(symbol) = "BNBUSDT" -> 300
      [] OTHER                     -> 1000

\* The price an order records as observed from the oracle.
ObservedPrice(o) == IF o.type = "MARKET" THEN o.price
                    ELSE o.current_market_price

\* C14 for the given set of statuses an order may come back with.
OracleFallbackWith(statuses) ==
    /\ (call.op = "get_current_price" /\ ~call.response.ok)
         => ret = ClaimedFallback(call.symbol)
    /\ ((IsMarketCall \/ IsLimitCall) /\ ~call.response.ok)
         => /\ Len(orders) >= 1
            /\ ret = LastOrder
            /\ LastOrder.orderId = order_id_counter - 1
            /\ LastOrder.symbol = Upper(call.symbol)
            /\ LastOrder.quantity = call.quantity
            /\ ObservedPrice(LastOrder) = ClaimedFallback(call.symbol)
            /\ LastOrder.status \in statuses

ConcurrentCallsSerialized ==
    /\ balance >= 0
    /\ \A i, j \in 1..Len(orders) :
          i # j => orders[i].orderId # orders[j].orderId

(* C16: a call whose order does not come back FILLED leaves the balance    *)
(* and all positions exactly as they were before the call.                 *)
NonFilledChangesNothing ==
    ((IsMarketCall \/ IsLimitCall) /\ LastOrder.status # "FILLED")
    => LedgerUnchanged

\* Witness of C16: with a position held, a limit order met its fill
\* condition, failed the balance or position check and was rejected.
NonFilledChangesNothing_Witness ==
    /\ IsLimitCall
    /\ LastOrder.status = "REJECTED"
    /\ DOMAIN before.positions # {}
    /\ LedgerUnchanged

\* The reason codes of the spec's error taxonomy.
ReasonCodes == {"InvalidQuantity", "InvalidPrice", "InsufficientFunds",
                "InsufficientPosition", "NotMarketable"}

(* C17: every REJECTED order records a reason, one of the reason codes.    *)
(* Stated as claimed; the code breaks it, for its order dicts have no      *)
(* reason field.                                                           *)
RejectedOrdersCarryReason ==
    \A i \in 1..Len(orders) :
        orders[i].status = "REJECTED"
        => /\ "reason" \in DOMAIN orders[i]
           /\ orders[i].reason \in ReasonCodes

\* The methods that place an order, and those that only report.
PlacingOps == {"place_market_order", "place_limit_order"}
ReportingOps == {"get_account_balance", "get_order_history",
                 "get_current_price"}

(* C18: every step keeps the orders already logged, unchanged and in       *)
(* place; a placing call adds exactly one order at the end, and a balance, *)
(* history or price query leaves the log as it is.                         *)
LogAppendOnly ==
    [][/\ Len(orders') >= Len(orders)
       /\ SubSeq(orders', 1, Len(orders)) = orders
       /\ call'.op \in PlacingOps => Len(orders') = Len(orders) + 1
       /\ call'.op \in ReportingOps => orders' = orders]_vars

\* Witness of C18: two orders are logged and a history query returned
\* them, oldest first.
LogAppendOnly_Witness ==
    /\ Len(orders) = 2
    /\ orders[1].orderId = 1
    /\ orders[2].orderId = 2
    /\ call.op = "get_order_history"
    /\ ret = orders

(* C19: every key of the positions map is an upper-cased symbol.  Stated   *)
(* as claimed; the code breaks it, for it keys positions by the symbol as  *)
(* passed, so 'btcusdt' and 'BTCUSDT' are two positions.                   *)
PositionKeysUpperCased ==
    \A k \in DOMAIN positions : k = Upper(k)

(* C20: a limit order whose limit price is <= 0 is never FILLED and leaves *)
(* the balance and positions as they were, also when enough of the symbol  *)
(* is held.  This is what the claim's rejection as InvalidPrice entails,   *)
(* stated for logs in which every quantity is positive; the code breaks    *)
(* it, for it validates no price and a SELL limit of 0 is below every      *)
(* market price.                                                           *)
NonPositiveLimitPriceRefused ==
    (/\ IsLimitCall
     /\ call.price <= 0
     /\ \A i \in 1..Len(orders) : orders[i].quantity > 0)
    => (LastOrder.status # "FILLED" /\ LedgerUnchanged)

(* C21: the dict returned by get_account_balance is an immutable copy: the *)
(* positions its holder sees stay what they were when it was returned,     *)
(* whatever orders are placed afterwards, and a write into it changes      *)
(* neither the bot's balance nor its positions.  Stated as claimed; the    *)
(* code breaks it, for the dict's 'positions' is self.positions itself.    *)
SnapshotIsImmutableCopy ==
    snapshot.taken
    => /\ Deref(snapshot.positions) = snapshot.returned_positions
       /\ call.op = "snapshot_setitem" => LedgerUnchanged

(* C22: an order carries an execution price ('filled_price') only when its *)
(* status is FILLED, and then it is the market price the order observed.   *)
(* Stated as claimed; the code breaks it, for a limit order that meets its *)
(* price condition gets 'filled_price' before the balance or position      *)
(* check, and keeps it when that check rejects the order.  Orders of       *)
(* non-positive quantity or limit price are left aside here.               *)
ExecutionPriceOnlyWhenFilled ==
    \A i \in 1..Len(orders) :
        (/\ "filled_price" \in DOMAIN orders[i]
         /\ orders[i].quantity > 0
         /\ orders[i].price > 0)
        => /\ orders[i].status = "FILLED"
           /\ orders[i].filled_price = orders[i].current_market_price

(* C23: while the price stays the same, the cash balance plus the value of *)
(* all positions at that price, added up as get_account_balance adds it,   *)
(* is the starting balance after any sequence of market and limit orders.  *)
(* Stated as claimed; the code breaks it, for its balance is a float and   *)
(* each subtraction of a cost rounds it (the arithmetic of C12).           *)
ValueConserved ==
    PortfolioValue(balance, positions, DOMAIN positions,
                   [k \in DOMAIN positions |-> ConserveQuote])
    = ConserveStart

(* C24: an order whose side, upper-cased, is neither BUY nor SELL is never *)
(* FILLED and changes neither the balance nor any position, with either    *)
(* method.  Stated as claimed, for logs in which every quantity is         *)
(* positive; the code breaks it, for place_market_order takes every side   *)
(* other than BUY for a SELL.                                              *)
UnknownSideNeverExecuted ==
    (/\ IsMarketCall \/ IsLimitCall
     /\ Upper(call.side) \notin {"BUY", "SELL"}
     /\ \A i \in 1..Len(orders) : orders[i].quantity > 0)
    => (LastOrder.status # "FILLED" /\ LedgerUnchanged)

\* The most recent call is one of the wrappers' single-order methods.
IsWrapperCall == call.op = "BasicBot.place_order"

\* The exchange lists the symbol of that call.
CallSymbolListed ==
    \E s \in call.info.symbols : s.symbol = Upper(call.symbol)

\* The quantity of that call is below minQty or above maxQty of a LOT_SIZE
\* filter of its symbol.
CallQuantityOutOfLot ==
    \E s \in call.info.symbols :
        /\ s.symbol = Upper(call.symbol)
        /\ \E i \in DOMAIN s.filters :
              /\ s.filters[i].filterType = "LOT_SIZE"
              /\ \/ call.quantity < s.filters[i].minQty
                 \/ call.quantity > s.filters[i].maxQty

(* C25: place_market_order, place_limit_order and place_stop_limit_order   *)
(* of bot1 and bot2 submit an order to the exchange only when the          *)
(* upper-cased side is BUY or SELL and the quantity passed validation;     *)
(* with an invalid side, an unknown symbol or a quantity outside minQty    *)
(* and maxQty of the LOT_SIZE filter the call raises and the exchange      *)
(* receives nothing.                                                       *)
WrappersSubmitOnlyValidated ==
    IsWrapperCall
    => /\ (\/ Upper(call.side) \notin {"BUY", "SELL"}
           \/ ~CallSymbolListed
           \/ CallQuantityOutOfLot)
          => (ret.raised /\ exchange = before.exchange)
       /\ exchange # before.exchange
          => /\ Upper(call.side) \in {"BUY", "SELL"}
             /\ CallSymbolListed
             /\ ~CallQuantityOutOfLot
             /\ ~ret.raised
             /\ ret.order.side = Upper(call.side)
             /\ ret.order.symbol = Upper(call.symbol)
             /\ exchange = Append(before.exchange, ret.order)

\* Witness of C25: a limit order for 0.014 btcusdt passed both checks and
\* reached the exchange as an order for 0.01 BTCUSDT.
WrappersSubmitOnlyValidated_Witness ==
    /\ IsWrapperCall
    /\ call.type = "LIMIT"
    /\ call.symbol = "btcusdt"
    /\ call.side = "sell"
    /\ call.quantity = 14
    /\ ~ret.raised
    /\ exchange = <<ret.order>>
    /\ ret.order.symbol = "BTCUSDT"
    /\ ret.order.side = "SELL"
    /\ ret.order.quantity = 10

\* The most recent call is bot1's place_oco_order.
IsOcoCall == call.op = "BasicBot.place_oco_order"

(* C27: place_oco_order is all-or-nothing: when it returns, the exchange   *)
(* has received its two legs, a limit order and then a stop-limit order;   *)
(* when it raises, the exchange holds no order of it.  Stated as claimed;  *)
(* the code breaks it, for it does not cancel the limit leg when the       *)
(* stop-limit leg fails.                                                   *)
OcoAllOrNothing ==
    IsOcoCall
    => IF ret.raised
       THEN exchange = before.exchange
       ELSE /\ exchange = before.exchange \o ret.orders
            /\ Len(ret.orders) = 2
            /\ ret.orders[1].type = "LIMIT"
            /\ ret.orders[2].type = "STOP"
            /\ ret.orders[1].quantity = ret.orders[2].quantity

\* main() of bot1 has constructed its BasicBot (the construction may have
\* failed afterwards, in initialize_client or test_connection).
BotConstructed == cli.pc \in {"menu", "failed"}

(* C26: main() of bot1 constructs the bot with testnet=False exactly when  *)
(* the user chose an environment other than '1' and then typed exactly     *)
(* CONFIRM; on every other path it constructs it with testnet=True.  The   *)
(* client the bot creates is of the same kind.                             *)
MainnetOnlyAfterConfirm ==
    BotConstructed
    => /\ cli.bot_testnet = ~(cli.env_choice # "1" /\ cli.confirm = "CONFIRM")
       /\ cli.client.config # 0 => cli.client.testnet = cli.bot_testnet

\* Witness of C26: environment 2 was chosen and CONFIRM typed, and the bot
\* runs against mainnet.
MainnetOnlyAfterConfirm_Witness ==
    /\ cli.pc = "menu"
    /\ cli.env_choice = "2"
    /\ cli.confirm = "CONFIRM"
    /\ cli.bot_testnet = FALSE
    /\ cli.client.testnet = FALSE

============================================================================
